---- MODULE Spec2Model ----
(***************************************************************************)
(* Per-frame simulation core of the three arcade games of learning-bevy.   *)
(*                                                                         *)
(* Numbers.  The games compute in f32; the model computes in integers on   *)
(* a grid on which every value it uses is exact.                           *)
(*   trail game : positions in pixels, time in ticks of 1/SnakeHz second   *)
(*                (SNAKE_SPEED * dt is then a whole number of pixels).     *)
(*   flight game: positions and velocities in 1/FlappyGrid pixel, time in  *)
(*                ticks of 1/FlappyHz second (GRAVITY * dt is then a whole *)
(*                number of grid units).                                   *)
(* Distances are compared squared (d < r  <=>  4*d*d < (2r)*(2r)).         *)
(*                                                                         *)
(* Scheduling.  The systems of a game are added to the Update schedule as  *)
(* one tuple without .chain(), so the schedule fixes no order among them:  *)
(* each frame runs every system once, in an order the executor picks, and  *)
(* commands (spawn, despawn) are applied when the schedule has finished.   *)
(***************************************************************************)
EXTENDS Integers, Sequences, FiniteSets, TLC

VARIABLES
    \* ---- trail game (src/snake-game/src/main.rs) ----
    Direction,        \* resource Direction(Vec2)
    Snake,            \* resource Snake(Vec<Entity>): the chain, head first
    segment,          \* live SnakeSegment entities -> Transform.translation
    food,             \* live Food entities -> Transform.translation
    snake_commands,   \* command queue of the running frame (deferred)
    snake_entities,   \* next entity id the world hands out
    snake_keys,       \* arrow keys the input system found held in the running
                      \* frame, recorded in the runs that observe the input
    snake_time,       \* resource Time: delta of the running frame, in ticks
    snake_clock,      \* the frame deltas the host clock delivers in this run
    snake_ran,        \* systems that have run in the running frame
    snake_exit,       \* an AppExit event was sent in the running frame
    snake_running,    \* the app has not exited
    snake_frame,      \* frames completed
    \* ---- flight game (src/flappy-bird/src/main.rs) ----
    bird_translation, \* Transform.translation of the Bird entity
    bird_velocity,    \* Bird.velocity
    pipes,            \* live Pipe entities -> Transform.translation
    pipe_velocity,    \* live Pipe entities -> Pipe.velocity
    pipe_timer,       \* resource PipeTimer: elapsed time of the timer, in ticks
    flappy_commands,  \* command queue of the running frame (deferred)
    flappy_entities,  \* next entity id the world hands out
    flappy_time,      \* resource Time: delta of the running frame, in ticks
    flappy_jumps,     \* frames so far in which Space was newly pressed
    flappy_ran,       \* systems that have run in the running frame
    flappy_exit,      \* an AppExit event was sent in the running frame
    flappy_running,   \* the app has not exited
    flappy_frame,     \* frames completed
    \* ---- ball game (src/pong-game/src/main.rs) ----
    ball_translation, \* Transform.translation of the Ball entity
    ball_velocity,    \* Velocity of the Ball entity
    paddle,           \* Paddle.player -> Transform.translation of that paddle
    pong_time,        \* resource Time: delta of the running frame, in ticks
    pong_ran,         \* systems that have run in the running frame
    pong_frame,       \* frames completed
    \* ---- the two box tests, called on their own ----
    box_a,            \* first box: [pos |-> centre, size |-> size], in pixels
    box_b,            \* second box
    overlaps_result,  \* what Rect::overlaps returned for (a, b) and (b, a)
    collision_result  \* what aabb_collision returned for (a, b) and (b, a)

snake_vars == <<Direction, Snake, segment, food, snake_commands, snake_entities,
                snake_keys, snake_time, snake_clock, snake_ran, snake_exit,
                snake_running, snake_frame>>

flappy_vars == <<bird_translation, bird_velocity, pipes, pipe_velocity, pipe_timer,
                 flappy_commands,
                 flappy_entities, flappy_time, flappy_jumps, flappy_ran, flappy_exit,
                 flappy_running, flappy_frame>>

pong_vars == <<ball_translation, ball_velocity, paddle, pong_time, pong_ran, pong_frame>>

box_vars == <<box_a, box_b, overlaps_result, collision_result>>

vars == <<snake_vars, flappy_vars, pong_vars, box_vars>>

\* what a step of one game leaves alone: the state of the other games
beside_snake == <<flappy_vars, pong_vars, box_vars>>
beside_flappy == <<snake_vars, pong_vars, box_vars>>
beside_pong == <<snake_vars, flappy_vars, box_vars>>
beside_box == <<snake_vars, flappy_vars, pong_vars>>

-----------------------------------------------------------------------------
(* Vec2 *)

VecAdd(a, b) == <<a[1] + b[1], a[2] + b[2]>>
VecNeg(a) == <<-a[1], -a[2]>>
VecX == <<1, 0>>
VecY == <<0, 1>>
VecZero == <<0, 0>>

\* f32::abs
Abs(n) == IF n < 0 THEN -n ELSE n

\* squared Vec2::distance
DistanceSq(a, b) == (a[1] - b[1]) * (a[1] - b[1]) + (a[2] - b[2]) * (a[2] - b[2])

\* a.distance(b) < twiceRadius / 2
DistanceBelow(a, b, twiceRadius) == 4 * DistanceSq(a, b) < twiceRadius * twiceRadius

-----------------------------------------------------------------------------
(* Trail game: constants *)

WINDOW_WIDTH == 800
WINDOW_HEIGHT == 600
FOOD_SIZE == <<10, 10>>
FOOD_START_POSITION == <<50, 50>>
SNAKE_SIZE == <<10, 10>>
SNAKE_SPEED == 200

\* time.delta_secs() = snake_time / SnakeHz
SnakeHz == 200

\* frame deltas of a clock that varies: 15 ms, 25 ms, 50 ms and 250 ms
SnakeDeltas == {3, 5, 10, 50}

\* frame deltas of a steady slow clock: 250 ms every frame
SteadyDeltas == {50}

\* frame deltas of a steady quick clock: 15 ms every frame
QuickDeltas == {3}

\* positions rng.random_range can return in spawn_food (both ranges are
\* half-open: the lower corner is included, 400 and 300 are not)
FoodSpots == {<<-400, -300>>, <<50, 110>>}

\* frames explored under the varying clock
MaxFrames == 3

\* frames explored under the steady clock
MaxSteadyFrames == 7

\* frames explored from the state of the upward run
MaxRunFrames == 2

\* the upward run: the frames it has completed and where its head is
UpwardRun == [frame |-> 30, head |-> <<51, 39>>]

FrameLimit(clock) ==
    IF clock = SteadyDeltas THEN MaxSteadyFrames
    ELSE IF clock = QuickDeltas THEN UpwardRun.frame + MaxRunFrames
    ELSE MaxFrames

SnakeSystems == {"snake_input_system", "snake_movement_system",
                 "food_collision_system", "self_collision_system"}

ArrowKeys == {"ArrowUp", "ArrowDown", "ArrowLeft", "ArrowRight"}

-----------------------------------------------------------------------------
(* Trail game: setup *)

\* setup: camera is entity 0, the food entity 1, the three segments 2, 3, 4
SnakeSetup ==
    /\ Direction = VecX
    /\ Snake = <<2, 3, 4>>
    /\ segment = [e \in {2, 3, 4} |-> <<-(e - 2) * SNAKE_SIZE[1], 0>>]
    /\ food = [e \in {1} |-> FOOD_START_POSITION]
    /\ snake_commands = <<>>
    /\ snake_entities = 5
    /\ snake_keys = {}
    /\ snake_ran = {}
    /\ snake_exit = FALSE
    /\ snake_running = TRUE
    /\ snake_frame = 0

SnakeStart ==
    /\ SnakeSetup
    /\ snake_clock \in {SnakeDeltas, SteadyDeltas}
    /\ snake_time \in snake_clock

\* A state in the middle of a game: the one the game is in after 30 frames of
\* 15 ms, the systems of each frame running in the order of the tuple of
\* main, no key held in the first 17 frames and ArrowUp held from the 18th
\* on.  The head has gone right to x = 51 and then up for 13 frames; the
\* three segments are in line, 3 px apart, and the food of setup is 11 px
\* from the head.
SnakeUpwardRun ==
    /\ Direction = VecY
    /\ Snake = <<2, 3, 4>>
    /\ segment = [e \in {2, 3, 4} |->
                     <<UpwardRun.head[1], UpwardRun.head[2] - 3 * (e - 2)>>]
    /\ food = [e \in {1} |-> FOOD_START_POSITION]
    /\ snake_commands = <<>>
    /\ snake_entities = 5
    /\ snake_keys = {}
    /\ snake_ran = {}
    /\ snake_exit = FALSE
    /\ snake_running = TRUE
    /\ snake_frame = UpwardRun.frame
    /\ snake_clock = QuickDeltas
    /\ snake_time \in snake_clock

\* a system may run: the app is alive and the system has not run this frame
SnakeMayRun(system) ==
    /\ snake_running
    /\ snake_frame < FrameLimit(snake_clock)
    /\ system \notin snake_ran

SnakeDone(system) == snake_ran' = snake_ran \cup {system}

-----------------------------------------------------------------------------
(* snake_input_system *)

\* variant: ArrowUp is taken without the test against the current direction
NewDirectionUnchecked(keys, dir) ==
    IF "ArrowUp" \in keys THEN VecY
    ELSE IF "ArrowDown" \in keys /\ dir # VecY THEN VecNeg(VecY)
    ELSE IF "ArrowLeft" \in keys /\ dir # VecX THEN VecNeg(VecX)
    ELSE IF "ArrowRight" \in keys /\ dir # VecNeg(VecX) THEN VecX
    ELSE dir

\* the if / else-if chain over the held keys
NewDirection(keys, dir) ==
    IF "ArrowUp" \in keys /\ dir # VecNeg(VecY) THEN VecY
    ELSE IF "ArrowDown" \in keys /\ dir # VecY THEN VecNeg(VecY)
    ELSE IF "ArrowLeft" \in keys /\ dir # VecX THEN VecNeg(VecX)
    ELSE IF "ArrowRight" \in keys /\ dir # VecNeg(VecX) THEN VecX
    ELSE dir

snake_input_system ==
    /\ SnakeMayRun("snake_input_system")
    /\ \E keys \in SUBSET ArrowKeys : Direction' = NewDirection(keys, Direction)
    /\ SnakeDone("snake_input_system")
    /\ UNCHANGED <<Snake, segment, food, snake_commands, snake_entities, snake_keys,
                   snake_time, snake_clock, snake_exit, snake_running, snake_frame>>
    /\ UNCHANGED beside_snake

\* snake_input_system, with the held keys it read kept in snake_keys
snake_input_observed ==
    /\ SnakeMayRun("snake_input_system")
    /\ \E keys \in SUBSET ArrowKeys :
          /\ Direction' = NewDirection(keys, Direction)
          /\ snake_keys' = keys
    /\ SnakeDone("snake_input_system")
    /\ UNCHANGED <<Snake, segment, food, snake_commands, snake_entities,
                   snake_time, snake_clock, snake_exit, snake_running, snake_frame>>
    /\ UNCHANGED beside_snake

-----------------------------------------------------------------------------
(* snake_movement_system *)

\* (dir.0 * SNAKE_SPEED * dt), dt = ticks / SnakeHz seconds
HeadStep(dir, ticks) ==
    <<(dir[1] * SNAKE_SPEED * ticks) \div SnakeHz,
      (dir[2] * SNAKE_SPEED * ticks) \div SnakeHz>>

\* previous_positions: the translations of the chain's entities the query
\* finds, pushed in chain order (an entity whose spawn is still queued is
\* skipped)
PreviousPositions(chain, seg) ==
    LET found == SelectSeq(chain, LAMBDA e : e \in DOMAIN seg)
    IN  [i \in 1..Len(found) |-> seg[found[i]]]

\* chain index (1-based) of an entity of the chain
IndexOf(chain, e) == CHOOSE i \in 1..Len(chain) : chain[i] = e

\* variant: each segment takes the position its predecessor has now, after
\* the predecessor's own update, instead of the snapshot
MovedSegmentsLive(chain, seg, dir, ticks) ==
    LET InChain(e) == \E i \in 1..Len(chain) : chain[i] = e
    IN  [e \in DOMAIN seg |->
            IF ~InChain(e) THEN seg[e]
            ELSE VecAdd(seg[chain[1]], HeadStep(dir, ticks))]

\* the translations after the head's move and the loop over .skip(1);
\* previous_positions[i - 1] outside the vector is a panic in the code and
\* an evaluation error here
MovedSegments(chain, seg, dir, ticks) ==
    LET previous_positions == PreviousPositions(chain, seg)
        InChain(e) == \E i \in 1..Len(chain) : chain[i] = e
    IN  [e \in DOMAIN seg |->
            IF ~InChain(e) THEN seg[e]
            ELSE IF IndexOf(chain, e) = 1 THEN VecAdd(seg[e], HeadStep(dir, ticks))
            ELSE previous_positions[IndexOf(chain, e) - 1]]

snake_movement_system ==
    /\ SnakeMayRun("snake_movement_system")
    /\ segment' = MovedSegments(Snake, segment, Direction, snake_time)
    /\ SnakeDone("snake_movement_system")
    /\ UNCHANGED <<Direction, Snake, food, snake_commands, snake_entities, snake_keys,
                   snake_time, snake_clock, snake_exit, snake_running, snake_frame>>
    /\ UNCHANGED beside_snake

-----------------------------------------------------------------------------
(* food_collision_system and spawn_food *)

\* the entities of a set in ascending id order (query iteration order)
InIdOrder(S) ==
    [i \in 1..Cardinality(S) |->
        CHOOSE e \in S : Cardinality({o \in S : o < e}) = i - 1]

Despawn(e) == [op |-> "despawn", entity |-> e, translation |-> VecZero]
SpawnSegment(e, at) == [op |-> "spawn_segment", entity |-> e, translation |-> at]
SpawnFood(e, at) == [op |-> "spawn_food", entity |-> e, translation |-> at]

\* variant: the boundary distance counts as a hit
FoodHitInclusive(head_position, food_pos) ==
    4 * DistanceSq(head_position, food_pos)
        <= (SNAKE_SIZE[1] + FOOD_SIZE[1]) * (SNAKE_SIZE[1] + FOOD_SIZE[1])

\* head-to-food test: distance < SNAKE_SIZE.x / 2 + FOOD_SIZE.x / 2
FoodHit(head_position, food_pos) ==
    DistanceBelow(head_position, food_pos, SNAKE_SIZE[1] + FOOD_SIZE[1])

\* variant: the new segment is inserted in front of the chain
EatFoodAtFront(st, food_entity, seg, random_pos) ==
    LET last_segment == st.chain[Len(st.chain)]
        grown == last_segment \in DOMAIN seg
        new_segment == st.next
        food_id == IF grown THEN st.next + 1 ELSE st.next
    IN  [chain |-> IF grown THEN <<new_segment>> \o st.chain ELSE st.chain,
         commands |-> st.commands \o <<Despawn(food_entity)>>
                      \o (IF grown THEN <<SpawnSegment(new_segment, seg[last_segment])>>
                          ELSE <<>>)
                      \o <<SpawnFood(food_id, random_pos)>>,
         next |-> food_id + 1]

\* variant: the food that is hit is despawned and no new food is spawned
EatFoodNoRespawn(st, food_entity, seg, random_pos) ==
    LET last_segment == st.chain[Len(st.chain)]
        grown == last_segment \in DOMAIN seg
        new_segment == st.next
    IN  [chain |-> IF grown THEN Append(st.chain, new_segment) ELSE st.chain,
         commands |-> st.commands \o <<Despawn(food_entity)>>
                      \o (IF grown THEN <<SpawnSegment(new_segment, seg[last_segment])>>
                          ELSE <<>>),
         next |-> IF grown THEN st.next + 1 ELSE st.next]

\* the body of the loop over food_data for one food that is hit: despawn it,
\* append a segment at the last segment's translation when the query finds
\* that segment, spawn a new food at random_pos
EatFood(st, food_entity, seg, random_pos) ==
    LET last_segment == st.chain[Len(st.chain)]
        grown == last_segment \in DOMAIN seg
        new_segment == st.next
        food_id == IF grown THEN st.next + 1 ELSE st.next
    IN  [chain |-> IF grown THEN Append(st.chain, new_segment) ELSE st.chain,
         commands |-> st.commands \o <<Despawn(food_entity)>>
                      \o (IF grown THEN <<SpawnSegment(new_segment, seg[last_segment])>>
                          ELSE <<>>)
                      \o <<SpawnFood(food_id, random_pos)>>,
         next |-> food_id + 1]

\* the loop over food_data; spots gives the position rng draws for each food
RECURSIVE FoodLoop(_, _, _, _, _, _)
FoodLoop(st, food_data, foods, seg, head_position, spots) ==
    IF food_data = <<>> THEN st
    ELSE LET food_entity == Head(food_data)
             after == IF FoodHit(head_position, foods[food_entity])
                      THEN EatFood(st, food_entity, seg, spots[food_entity])
                      ELSE st
         IN  FoodLoop(after, Tail(food_data), foods, seg, head_position, spots)

food_collision_system ==
    /\ SnakeMayRun("food_collision_system")
    /\ IF Snake[1] \notin DOMAIN segment
       THEN UNCHANGED <<Snake, snake_commands, snake_entities>>
       ELSE \E spots \in [DOMAIN food -> FoodSpots] :
              LET st == FoodLoop([chain |-> Snake, commands |-> snake_commands,
                                  next |-> snake_entities],
                                 InIdOrder(DOMAIN food), food, segment,
                                 segment[Snake[1]], spots)
              IN  /\ Snake' = st.chain
                  /\ snake_commands' = st.commands
                  /\ snake_entities' = st.next
    /\ SnakeDone("food_collision_system")
    /\ UNCHANGED <<Direction, segment, food, snake_keys, snake_time, snake_clock, snake_exit,
                   snake_running, snake_frame>>
    /\ UNCHANGED beside_snake

-----------------------------------------------------------------------------
(* self_collision_system *)

\* head-to-segment test: distance < SNAKE_SIZE.x / 2
SelfHit(head_pos, segment_pos) == DistanceBelow(head_pos, segment_pos, SNAKE_SIZE[1])

\* variant: no early return for a chain shorter than 4
SelfCollisionAnyLength(chain, seg) ==
    /\ chain[1] \in DOMAIN seg
    /\ \E i \in 2..Len(chain) :
          /\ chain[i] \in DOMAIN seg
          /\ SelfHit(seg[chain[1]], seg[chain[i]])

\* exit.send is reached for some segment of snake.0[1..]
SelfCollision(chain, seg) ==
    /\ Len(chain) >= 4
    /\ chain[1] \in DOMAIN seg
    /\ \E i \in 2..Len(chain) :
          /\ chain[i] \in DOMAIN seg
          /\ SelfHit(seg[chain[1]], seg[chain[i]])

self_collision_system ==
    /\ SnakeMayRun("self_collision_system")
    /\ snake_exit' = (snake_exit \/ SelfCollision(Snake, segment))
    /\ SnakeDone("self_collision_system")
    /\ UNCHANGED <<Direction, Snake, segment, food, snake_commands, snake_entities,
                   snake_keys, snake_time, snake_clock, snake_running, snake_frame>>
    /\ UNCHANGED beside_snake

-----------------------------------------------------------------------------
(* End of the frame: the schedule applies the queued commands, the runner  *)
(* stops on AppExit, otherwise the clock measures the next frame.          *)

RECURSIVE ApplySegments(_, _)
ApplySegments(commands, seg) ==
    IF commands = <<>> THEN seg
    ELSE LET c == Head(commands)
             next == IF c.op = "spawn_segment"
                     THEN [e \in DOMAIN seg \cup {c.entity} |->
                             IF e = c.entity THEN c.translation ELSE seg[e]]
                     ELSE IF c.op = "despawn"
                     THEN [e \in DOMAIN seg \ {c.entity} |-> seg[e]]
                     ELSE seg
         IN  ApplySegments(Tail(commands), next)

RECURSIVE ApplyFood(_, _)
ApplyFood(commands, foods) ==
    IF commands = <<>> THEN foods
    ELSE LET c == Head(commands)
             next == IF c.op = "spawn_food"
                     THEN [e \in DOMAIN foods \cup {c.entity} |->
                             IF e = c.entity THEN c.translation ELSE foods[e]]
                     ELSE IF c.op = "despawn"
                     THEN [e \in DOMAIN foods \ {c.entity} |-> foods[e]]
                     ELSE foods
         IN  ApplyFood(Tail(commands), next)

snake_end_of_frame ==
    /\ snake_running
    /\ snake_ran = SnakeSystems
    /\ segment' = ApplySegments(snake_commands, segment)
    /\ food' = ApplyFood(snake_commands, food)
    /\ snake_commands' = <<>>
    /\ snake_keys' = {}
    /\ snake_ran' = {}
    /\ snake_frame' = snake_frame + 1
    /\ snake_running' = ~snake_exit
    /\ snake_exit' = FALSE
    /\ IF snake_exit THEN snake_time' = snake_time
       ELSE snake_time' \in snake_clock
    /\ UNCHANGED <<Direction, Snake, snake_entities, snake_clock>>
    /\ UNCHANGED beside_snake

SnakeNext ==
    \/ snake_input_system
    \/ snake_movement_system
    \/ food_collision_system
    \/ self_collision_system
    \/ snake_end_of_frame

SnakeInputNext ==
    \/ snake_input_observed
    \/ snake_movement_system
    \/ food_collision_system
    \/ self_collision_system
    \/ snake_end_of_frame

-----------------------------------------------------------------------------
(* Flight game: constants *)

WINDOW_RESOLUTION == <<288, 512>>
BIRD_WIDTH == 24
BIRD_HEIGHT == 32
GRAVITY == <<0, -8>>
JUMP_FORCE == <<0, 5>>
PIPE_WIDTH == 52
PIPE_HEIGHT == 320
PIPE_SPAWN_INTERVAL == 2
GAP_HEIGHT == 100

\* Pipe { velocity: Vec2::new(-3., 0.) }
PIPE_VELOCITY == <<-3, 0>>

\* lead of the spawn x over the right edge: the literal 200. of pipe_x
PIPE_LEAD == 200

\* grid units per pixel
FlappyGrid == 2

\* time.delta_secs() = flappy_time / FlappyHz
FlappyHz == 16

\* a length or a coordinate in pixels, in grid units
Px(n) == n * FlappyGrid
PxVec(v) == <<Px(v[1]), Px(v[2])>>

\* a duration in seconds, in ticks
Seconds(n) == n * FlappyHz

\* frame deltas, the same in every frame of a run: a fine one, 62.5 ms, and
\* two coarse ones, 0.5 s and 4.5 s (one tick that spans two intervals of
\* the spawn timer)
FineDeltas == {1}
CoarseDeltas == {8, 72}
FlappyDeltas == FineDeltas \cup CoarseDeltas

\* values rng.random_range(-100.0 .. 100.0) can return for gap_y, in pixels
GapCenters == {-100, 30}

\* frames explored from the start of the game at a fine delta
MaxFlappyFrames == 31

\* frames explored from the start of the game at a coarse delta
MaxCoarseFrames == 12

\* frames explored from the mid-game state
MaxMidFrames == 5

\* frames explored from the late-game state
MaxLateFrames == 3

\* frames, of those explored, in which the player newly presses Space
MaxJumps == 1

FlappySystems == {"update_bird_system", "input_system", "spawn_pipes_system",
                  "move_pipes_system", "despawn_pipes_system", "bird_collision_system"}

-----------------------------------------------------------------------------
(* Flight game: setup *)

\* setup: camera, background and bird are entities 0, 1 and 2
FlappySetup ==
    /\ bird_translation = VecZero
    /\ bird_velocity = VecZero
    /\ pipes = [e \in {} |-> VecZero]
    /\ pipe_velocity = [e \in {} |-> VecZero]
    /\ pipe_timer = 0
    /\ flappy_commands = <<>>
    /\ flappy_entities = 3
    /\ flappy_jumps = 0
    /\ flappy_ran = {}
    /\ flappy_exit = FALSE
    /\ flappy_running = TRUE
    /\ flappy_frame = 0

FlappyStart ==
    /\ FlappySetup
    /\ flappy_time \in FlappyDeltas

\* A state in the middle of a game: the one the game is in after 142 frames
\* of 62.5 ms, the systems of each frame running in the order of the tuple
\* of main, Space newly pressed in exactly the frames that begin with the
\* bird below 10 px and falling (8 presses), and 30 drawn for every gap_y.
\* Four pairs of pipes are live, the first one frame short of the bird's
\* column.  gap_y of that pair is the draw of frame 32.
MidGame(gap_y) ==
    [frame |-> 142,
     jumps |-> 8,
     bird_translation |-> <<0, 61>>,
     bird_velocity |-> <<0, 0>>,
     pipes |-> [e \in 3..10 |->
                  LET pair == (e - 3) \div 2
                      gap == IF pair = 0 THEN gap_y ELSE 30
                      side == IF e % 2 = 1 THEN -1 ELSE 1
                  IN  <<Px(40 + 96 * pair),
                        Px(gap + side * (GAP_HEIGHT \div 2 + PIPE_HEIGHT \div 2))>>],
     pipe_timer |-> 14,
     entities |-> 11]

FlappyMidGame ==
    \E gap_y \in GapCenters :
        LET m == MidGame(gap_y)
        IN  /\ bird_translation = m.bird_translation
            /\ bird_velocity = m.bird_velocity
            /\ pipes = m.pipes
            /\ pipe_velocity = [e \in DOMAIN m.pipes |-> PxVec(PIPE_VELOCITY)]
            /\ pipe_timer = m.pipe_timer
            /\ flappy_commands = <<>>
            /\ flappy_entities = m.entities
            /\ flappy_jumps = m.jumps
            /\ flappy_ran = {}
            /\ flappy_exit = FALSE
            /\ flappy_running = TRUE
            /\ flappy_frame = m.frame
            /\ flappy_time \in FlappyDeltas

\* The state the same game is in 69 frames later, after 211 frames and 12
\* presses, every gap_y drawn being 30: six pairs of pipes are live, the
\* first at x = -167, one frame short of the edge despawn_pipes_system
\* tests, the third in the bird's column.
LateGame ==
    [frame |-> 211,
     jumps |-> 12,
     bird_translation |-> <<0, 40>>,
     bird_velocity |-> <<0, 7>>,
     pipes |-> [e \in 3..14 |->
                  LET pair == (e - 3) \div 2
                      side == IF e % 2 = 1 THEN -1 ELSE 1
                  IN  <<Px(96 * pair - 167),
                        Px(30 + side * (GAP_HEIGHT \div 2 + PIPE_HEIGHT \div 2))>>],
     pipe_timer |-> 19,
     entities |-> 15]

FlappyLateGame ==
    /\ bird_translation = LateGame.bird_translation
    /\ bird_velocity = LateGame.bird_velocity
    /\ pipes = LateGame.pipes
    /\ pipe_velocity = [e \in DOMAIN LateGame.pipes |-> PxVec(PIPE_VELOCITY)]
    /\ pipe_timer = LateGame.pipe_timer
    /\ flappy_commands = <<>>
    /\ flappy_entities = LateGame.entities
    /\ flappy_jumps = LateGame.jumps
    /\ flappy_ran = {}
    /\ flappy_exit = FALSE
    /\ flappy_running = TRUE
    /\ flappy_frame = LateGame.frame
    /\ flappy_time \in FlappyDeltas

\* the exploration began at the mid-game state or at the late-game state
FromMidGame == flappy_frame >= MidGame(30).frame
FromLateGame == flappy_frame >= LateGame.frame

FlappyFrameLimit ==
    IF FromLateGame THEN LateGame.frame + MaxLateFrames
    ELSE IF FromMidGame THEN MidGame(30).frame + MaxMidFrames
    ELSE IF flappy_time \in CoarseDeltas THEN MaxCoarseFrames
    ELSE MaxFlappyFrames

FlappyJumpLimit ==
    IF FromLateGame THEN LateGame.jumps + MaxJumps
    ELSE IF FromMidGame THEN MidGame(30).jumps + MaxJumps
    ELSE MaxJumps

FlappyMayRun(system) ==
    /\ flappy_running
    /\ flappy_frame < FlappyFrameLimit
    /\ system \notin flappy_ran

FlappyDone(system) == flappy_ran' = flappy_ran \cup {system}

-----------------------------------------------------------------------------
(* input_system *)

\* variant: the jump force is added to the velocity the bird has
JumpAdds(velocity) == <<velocity[1], velocity[2] + Px(JUMP_FORCE[2])>>

\* bird.velocity.y = JUMP_FORCE.y
Jump(velocity) == <<velocity[1], Px(JUMP_FORCE[2])>>

input_system ==
    /\ FlappyMayRun("input_system")
    /\ \E just_pressed \in (IF flappy_jumps < FlappyJumpLimit THEN BOOLEAN ELSE {FALSE}) :
          IF just_pressed
          THEN /\ bird_velocity' = Jump(bird_velocity)
               /\ flappy_jumps' = flappy_jumps + 1
          ELSE UNCHANGED <<bird_velocity, flappy_jumps>>
    /\ FlappyDone("input_system")
    /\ UNCHANGED <<bird_translation, pipes, pipe_velocity, pipe_timer, flappy_commands,
                   flappy_entities, flappy_time, flappy_exit, flappy_running,
                   flappy_frame>>
    /\ UNCHANGED beside_flappy

-----------------------------------------------------------------------------
(* update_bird_system *)

\* bird.velocity += GRAVITY * dt
Accelerate(velocity, ticks) ==
    <<velocity[1] + (Px(GRAVITY[1]) * ticks) \div FlappyHz,
      velocity[2] + (Px(GRAVITY[2]) * ticks) \div FlappyHz>>

\* variant: the position advances by the velocity of the frame before
update_bird_stale_velocity ==
    /\ FlappyMayRun("update_bird_system")
    /\ bird_velocity' = Accelerate(bird_velocity, flappy_time)
    /\ bird_translation' = VecAdd(bird_translation, bird_velocity)
    /\ FlappyDone("update_bird_system")
    /\ UNCHANGED <<pipes, pipe_velocity, pipe_timer, flappy_commands, flappy_entities,
                   flappy_time, flappy_jumps, flappy_exit, flappy_running, flappy_frame>>
    /\ UNCHANGED beside_flappy

update_bird_system ==
    /\ FlappyMayRun("update_bird_system")
    /\ bird_velocity' = Accelerate(bird_velocity, flappy_time)
    /\ bird_translation' = VecAdd(bird_translation, bird_velocity')
    /\ FlappyDone("update_bird_system")
    /\ UNCHANGED <<pipes, pipe_velocity, pipe_timer, flappy_commands, flappy_entities,
                   flappy_time, flappy_jumps, flappy_exit, flappy_running, flappy_frame>>
    /\ UNCHANGED beside_flappy

-----------------------------------------------------------------------------
(* spawn_pipes_system *)

\* variant: the timer finishes only once the elapsed time is past the duration
TimerTickStrict(elapsed, delta, duration) ==
    LET total == elapsed + delta
    IN  [just_finished |-> total > duration,
         elapsed |-> IF total > duration THEN total % duration ELSE total]

\* variant: a finished timer restarts from zero and drops the remainder
TimerTickReset(elapsed, delta, duration) ==
    LET total == elapsed + delta
    IN  [just_finished |-> total >= duration,
         elapsed |-> IF total >= duration THEN 0 ELSE total]

\* Timer::tick of a repeating timer: the elapsed time advances by delta; at
\* or past the duration the timer has finished and keeps the remainder
TimerTick(elapsed, delta, duration) ==
    LET total == elapsed + delta
    IN  [just_finished |-> total >= duration,
         elapsed |-> IF total >= duration THEN total % duration ELSE total]

\* spawn of (Transform at, Pipe { velocity: Vec2::new(-3., 0.) })
SpawnPipe(e, at) ==
    [op |-> "spawn_pipe", entity |-> e, translation |-> at,
     velocity |-> PxVec(PIPE_VELOCITY)]

\* variant: the two pipes are offset by half the pipe height only, no gap
PipePairNoGap(next, gap_y) ==
    LET pipe_x == WINDOW_RESOLUTION[1] \div 2 + PIPE_WIDTH \div 2 + PIPE_LEAD
        inf_pipe_y == gap_y - PIPE_HEIGHT \div 2
        sup_pipe_y == gap_y + PIPE_HEIGHT \div 2
    IN  <<SpawnPipe(next, PxVec(<<pipe_x, inf_pipe_y>>)),
          SpawnPipe(next + 1, PxVec(<<pipe_x, sup_pipe_y>>))>>

\* the two pipes of one spawn, for the gap centre drawn
PipePair(next, gap_y) ==
    LET pipe_x == WINDOW_RESOLUTION[1] \div 2 + PIPE_WIDTH \div 2 + PIPE_LEAD
        inf_pipe_y == gap_y - GAP_HEIGHT \div 2 - PIPE_HEIGHT \div 2
        sup_pipe_y == gap_y + GAP_HEIGHT \div 2 + PIPE_HEIGHT \div 2
    IN  <<SpawnPipe(next, PxVec(<<pipe_x, inf_pipe_y>>)),
          SpawnPipe(next + 1, PxVec(<<pipe_x, sup_pipe_y>>))>>

spawn_pipes_system ==
    /\ FlappyMayRun("spawn_pipes_system")
    /\ LET t == TimerTick(pipe_timer, flappy_time, Seconds(PIPE_SPAWN_INTERVAL))
       IN  /\ pipe_timer' = t.elapsed
           /\ IF t.just_finished
              THEN \E gap_y \in GapCenters :
                     /\ flappy_commands' = flappy_commands \o PipePair(flappy_entities, gap_y)
                     /\ flappy_entities' = flappy_entities + 2
              ELSE UNCHANGED <<flappy_commands, flappy_entities>>
    /\ FlappyDone("spawn_pipes_system")
    /\ UNCHANGED <<bird_translation, bird_velocity, pipes, pipe_velocity, flappy_time,
                   flappy_jumps, flappy_exit, flappy_running, flappy_frame>>
    /\ UNCHANGED beside_flappy

-----------------------------------------------------------------------------
(* move_pipes_system *)

move_pipes_system ==
    /\ FlappyMayRun("move_pipes_system")
    /\ pipes' = [e \in DOMAIN pipes |-> VecAdd(pipes[e], pipe_velocity[e])]
    /\ FlappyDone("move_pipes_system")
    /\ UNCHANGED <<bird_translation, bird_velocity, pipe_velocity, pipe_timer, flappy_commands,
                   flappy_entities, flappy_time, flappy_jumps, flappy_exit,
                   flappy_running, flappy_frame>>
    /\ UNCHANGED beside_flappy

-----------------------------------------------------------------------------
(* despawn_pipes_system *)

\* variant: a pipe exactly at the edge counts as past it
PastLeftEdgeInclusive(translation) ==
    translation[1] <= Px(-(WINDOW_RESOLUTION[1] \div 2) - PIPE_WIDTH \div 2)

\* transform.translation.x < -WINDOW_RESOLUTION.x / 2. - PIPE_WIDTH / 2.
PastLeftEdge(translation) ==
    translation[1] < Px(-(WINDOW_RESOLUTION[1] \div 2) - PIPE_WIDTH \div 2)

\* the despawn commands of the loop over pipe_query, in query order
DespawnAll(entities, translations) ==
    LET past == SelectSeq(entities, LAMBDA e : PastLeftEdge(translations[e]))
    IN  [i \in 1..Len(past) |-> Despawn(past[i])]

despawn_pipes_system ==
    /\ FlappyMayRun("despawn_pipes_system")
    /\ flappy_commands' = flappy_commands \o DespawnAll(InIdOrder(DOMAIN pipes), pipes)
    /\ FlappyDone("despawn_pipes_system")
    /\ UNCHANGED <<bird_translation, bird_velocity, pipes, pipe_velocity, pipe_timer,
                   flappy_entities, flappy_time, flappy_jumps, flappy_exit, flappy_running,
                   flappy_frame>>
    /\ UNCHANGED beside_flappy

-----------------------------------------------------------------------------
(* bird_collision_system *)

\* Rect::from_center_size, center in grid units and size in pixels
FromCenterSize(center, size) ==
    [min |-> <<center[1] - Px(size[1]) \div 2, center[2] - Px(size[2]) \div 2>>,
     max |-> <<center[1] + Px(size[1]) \div 2, center[2] + Px(size[2]) \div 2>>]

\* variant: the test on the y axis is left out
OverlapsOnX(self, other) ==
    /\ self.min[1] < other.max[1]
    /\ self.max[1] > other.min[1]

\* Rect::overlaps
Overlaps(self, other) ==
    /\ self.min[1] < other.max[1]
    /\ self.max[1] > other.min[1]
    /\ self.min[2] < other.max[2]
    /\ self.max[2] > other.min[2]

\* the two comparisons of the bird's edges with the window (bird_pos in
\* grid units)
OutOfBounds(bird_pos) ==
    \/ bird_pos[2] - Px(BIRD_HEIGHT) \div 2 <= -(Px(WINDOW_RESOLUTION[2]) \div 2)
    \/ bird_pos[2] + Px(BIRD_HEIGHT) \div 2 >= Px(WINDOW_RESOLUTION[2]) \div 2

\* exit.send is reached in the loop over pipe_query
BirdCollision(bird_pos, pipe_translations) ==
    LET bird_rect == FromCenterSize(bird_pos, <<BIRD_WIDTH, BIRD_HEIGHT>>)
    IN  \E e \in DOMAIN pipe_translations :
            \/ Overlaps(bird_rect,
                        FromCenterSize(pipe_translations[e], <<PIPE_WIDTH, PIPE_HEIGHT>>))
            \/ OutOfBounds(bird_pos)

bird_collision_system ==
    /\ FlappyMayRun("bird_collision_system")
    /\ flappy_exit' = (flappy_exit \/ BirdCollision(bird_translation, pipes))
    /\ FlappyDone("bird_collision_system")
    /\ UNCHANGED <<bird_translation, bird_velocity, pipes, pipe_velocity, pipe_timer,
                   flappy_commands, flappy_entities, flappy_time, flappy_jumps,
                   flappy_running, flappy_frame>>
    /\ UNCHANGED beside_flappy

-----------------------------------------------------------------------------
(* End of the frame of the flight game *)

RECURSIVE ApplyPipes(_, _)
ApplyPipes(commands, ps) ==
    IF commands = <<>> THEN ps
    ELSE LET c == Head(commands)
             next == IF c.op = "spawn_pipe"
                     THEN [e \in DOMAIN ps \cup {c.entity} |->
                             IF e = c.entity THEN c.translation ELSE ps[e]]
                     ELSE IF c.op = "despawn"
                     THEN [e \in DOMAIN ps \ {c.entity} |-> ps[e]]
                     ELSE ps
         IN  ApplyPipes(Tail(commands), next)

\* the Pipe components after the queued commands
RECURSIVE ApplyVelocities(_, _)
ApplyVelocities(commands, vs) ==
    IF commands = <<>> THEN vs
    ELSE LET c == Head(commands)
             next == IF c.op = "spawn_pipe"
                     THEN [e \in DOMAIN vs \cup {c.entity} |->
                             IF e = c.entity THEN c.velocity ELSE vs[e]]
                     ELSE IF c.op = "despawn"
                     THEN [e \in DOMAIN vs \ {c.entity} |-> vs[e]]
                     ELSE vs
         IN  ApplyVelocities(Tail(commands), next)

flappy_end_of_frame ==
    /\ flappy_running
    /\ flappy_ran = FlappySystems
    /\ pipes' = ApplyPipes(flappy_commands, pipes)
    /\ pipe_velocity' = ApplyVelocities(flappy_commands, pipe_velocity)
    /\ flappy_commands' = <<>>
    /\ flappy_ran' = {}
    /\ flappy_frame' = flappy_frame + 1
    /\ flappy_running' = ~flappy_exit
    /\ flappy_exit' = FALSE
    /\ UNCHANGED <<bird_translation, bird_velocity, pipe_timer, flappy_entities,
                   flappy_time, flappy_jumps>>
    /\ UNCHANGED beside_flappy

FlappyNext ==
    \/ update_bird_system
    \/ input_system
    \/ spawn_pipes_system
    \/ move_pipes_system
    \/ despawn_pipes_system
    \/ bird_collision_system
    \/ flappy_end_of_frame

-----------------------------------------------------------------------------
(* Ball game: constants.  Positions in pixels, time in ticks of 1/PongHz   *)
(* second; WINDOW_WIDTH and WINDOW_HEIGHT have the trail game's values.    *)

PADDLE_SIZE == <<100, 10>>
PADDLE_OFFSET == 20
PADDLE_VELOCITY == <<400, 0>>
BALL_SIZE == <<10, 10>>
BALL_VELOCITY == <<300, 300>>

\* time.delta_secs() = pong_time / PongHz
PongHz == 100

\* frame deltas the clock delivers, any of them in any frame: 10 ms and 230 ms
PongDeltas == {1, 23}

\* the sets of keys found pressed in a frame
PongKeySets == {{}, {"KeyD"}, {"KeyA", "ArrowRight"}, {"ArrowLeft"}}

\* frames explored
MaxPongFrames == 6

PongSystems == {"pong_input_system", "ball_movement_system",
                "wall_collision_system", "paddle_collision_system"}

-----------------------------------------------------------------------------
(* Ball game: setup *)

PongSetup ==
    /\ ball_translation = VecZero
    /\ ball_velocity = BALL_VELOCITY
    /\ paddle = [player \in {1, 2} |->
                    IF player = 1 THEN <<0, WINDOW_HEIGHT \div 2 - PADDLE_OFFSET>>
                    ELSE <<0, -(WINDOW_HEIGHT \div 2) + PADDLE_OFFSET>>]
    /\ pong_ran = {}
    /\ pong_frame = 0

PongStart ==
    /\ PongSetup
    /\ pong_time \in PongDeltas

PongMayRun(system) ==
    /\ pong_frame < MaxPongFrames
    /\ system \notin pong_ran

PongDone(system) == pong_ran' = pong_ran \cup {system}

\* v * dt, dt = ticks / PongHz seconds
Scaled(v, ticks) == <<(v[1] * ticks) \div PongHz, (v[2] * ticks) \div PongHz>>

-----------------------------------------------------------------------------
(* input_system of the ball game *)

\* one arm of the match: the key to the left is tested first, then the one
\* to the right, each with its test of the paddle against the window
MovedPaddle(translation, left, right, ticks) ==
    IF left /\ 2 * translation[1] > -WINDOW_WIDTH + PADDLE_SIZE[1]
    THEN VecAdd(translation, VecNeg(Scaled(PADDLE_VELOCITY, ticks)))
    ELSE IF right /\ 2 * translation[1] < WINDOW_WIDTH - PADDLE_SIZE[1]
    THEN VecAdd(translation, Scaled(PADDLE_VELOCITY, ticks))
    ELSE translation

pong_input_system ==
    /\ PongMayRun("pong_input_system")
    /\ \E keys \in PongKeySets :
          paddle' = [player \in DOMAIN paddle |->
                        IF player = 1
                        THEN MovedPaddle(paddle[player], "KeyA" \in keys,
                                         "KeyD" \in keys, pong_time)
                        ELSE MovedPaddle(paddle[player], "ArrowLeft" \in keys,
                                         "ArrowRight" \in keys, pong_time)]
    /\ PongDone("pong_input_system")
    /\ UNCHANGED <<ball_translation, ball_velocity, pong_time, pong_frame>>
    /\ UNCHANGED beside_pong

-----------------------------------------------------------------------------
(* ball_movement_system *)

ball_movement_system ==
    /\ PongMayRun("ball_movement_system")
    /\ ball_translation' = VecAdd(ball_translation, Scaled(ball_velocity, pong_time))
    /\ PongDone("ball_movement_system")
    /\ UNCHANGED <<ball_velocity, paddle, pong_time, pong_frame>>
    /\ UNCHANGED beside_pong

-----------------------------------------------------------------------------
(* wall_collision_system *)

\* translation.x < -WINDOW_WIDTH / 2. + BALL_SIZE.x / 2. || translation.x >
\* WINDOW_WIDTH / 2. - BALL_SIZE.x / 2.
BeyondSides(translation) ==
    \/ 2 * translation[1] < -WINDOW_WIDTH + BALL_SIZE[1]
    \/ 2 * translation[1] > WINDOW_WIDTH - BALL_SIZE[1]

BeyondTopOrBottom(translation) ==
    \/ 2 * translation[2] < -WINDOW_HEIGHT + BALL_SIZE[2]
    \/ 2 * translation[2] > WINDOW_HEIGHT - BALL_SIZE[2]

\* variant: a ball beyond a side has both components of its velocity negated
WallReflectBoth(translation, velocity) ==
    IF BeyondSides(translation) THEN VecNeg(velocity)
    ELSE <<velocity[1],
           IF BeyondTopOrBottom(translation) THEN -velocity[2] ELSE velocity[2]>>

\* the velocity after the two ifs
WallReflect(translation, velocity) ==
    <<IF BeyondSides(translation) THEN -velocity[1] ELSE velocity[1],
      IF BeyondTopOrBottom(translation) THEN -velocity[2] ELSE velocity[2]>>

wall_collision_system ==
    /\ PongMayRun("wall_collision_system")
    /\ ball_velocity' = WallReflect(ball_translation, ball_velocity)
    /\ PongDone("wall_collision_system")
    /\ UNCHANGED <<ball_translation, paddle, pong_time, pong_frame>>
    /\ UNCHANGED beside_pong

-----------------------------------------------------------------------------
(* paddle_collision_system and aabb_collision *)

\* variant: boxes whose edges touch count as colliding
aabb_collision_inclusive(a_pos, a_size, b_pos, b_size) ==
    LET collision_x == 2 * Abs(a_pos[1] - b_pos[1]) <= a_size[1] + b_size[1]
        collision_y == 2 * Abs(a_pos[2] - b_pos[2]) <= a_size[2] + b_size[2]
    IN  collision_x /\ collision_y

\* (a_pos.x - b_pos.x).abs() < (a_size.x + b_size.x) / 2., and the same on y
aabb_collision(a_pos, a_size, b_pos, b_size) ==
    LET collision_x == 2 * Abs(a_pos[1] - b_pos[1]) < a_size[1] + b_size[1]
        collision_y == 2 * Abs(a_pos[2] - b_pos[2]) < a_size[2] + b_size[2]
    IN  collision_x /\ collision_y

\* the loop over paddle_query: the first paddle found to collide negates
\* velocity.y and ends the system
PaddleReflect(translation, velocity, paddles) ==
    IF \E player \in DOMAIN paddles :
          aabb_collision(translation, BALL_SIZE, paddles[player], PADDLE_SIZE)
    THEN <<velocity[1], -velocity[2]>>
    ELSE velocity

paddle_collision_system ==
    /\ PongMayRun("paddle_collision_system")
    /\ ball_velocity' = PaddleReflect(ball_translation, ball_velocity, paddle)
    /\ PongDone("paddle_collision_system")
    /\ UNCHANGED <<ball_translation, paddle, pong_time, pong_frame>>
    /\ UNCHANGED beside_pong

-----------------------------------------------------------------------------
(* End of the frame of the ball game *)

pong_end_of_frame ==
    /\ pong_ran = PongSystems
    /\ pong_ran' = {}
    /\ pong_frame' = pong_frame + 1
    /\ pong_time' \in PongDeltas
    /\ UNCHANGED <<ball_translation, ball_velocity, paddle>>
    /\ UNCHANGED beside_pong

PongNext ==
    \/ pong_input_system
    \/ ball_movement_system
    \/ wall_collision_system
    \/ paddle_collision_system
    \/ pong_end_of_frame

-----------------------------------------------------------------------------
(* The two box tests on the same pair of boxes.  A box is given by centre  *)
(* and size in pixels; Rect::overlaps gets it in the flight game's units.  *)

\* largest coordinate of a centre and largest side of a box
MaxCentre == 2
MaxSide == 2

Boxes ==
    [pos : (-MaxCentre..MaxCentre) \X (-1..1), size : (1..MaxSide) \X (1..MaxSide)]

NotCalled == [called |-> FALSE, ab |-> FALSE, ba |-> FALSE]

BoxSetup ==
    /\ box_a = [pos |-> VecZero, size |-> <<1, 1>>]
    /\ box_b = [pos |-> VecZero, size |-> <<1, 1>>]
    /\ overlaps_result = NotCalled
    /\ collision_result = NotCalled

BoxStart ==
    /\ box_a \in Boxes
    /\ box_b \in Boxes
    /\ overlaps_result = NotCalled
    /\ collision_result = NotCalled

\* Rect::from_center_size(pos, size).overlaps(&Rect::from_center_size(..))
RectOverlaps(a, b) ==
    Overlaps(FromCenterSize(PxVec(a.pos), a.size), FromCenterSize(PxVec(b.pos), b.size))

call_overlaps ==
    /\ ~overlaps_result.called
    /\ overlaps_result' = [called |-> TRUE, ab |-> RectOverlaps(box_a, box_b),
                           ba |-> RectOverlaps(box_b, box_a)]
    /\ UNCHANGED <<box_a, box_b, collision_result>>
    /\ UNCHANGED beside_box

call_aabb_collision ==
    /\ ~collision_result.called
    /\ collision_result' =
          [called |-> TRUE,
           ab |-> aabb_collision(box_a.pos, box_a.size, box_b.pos, box_b.size),
           ba |-> aabb_collision(box_b.pos, box_b.size, box_a.pos, box_a.size)]
    /\ UNCHANGED <<box_a, box_b, overlaps_result>>
    /\ UNCHANGED beside_box

BoxNext ==
    \/ call_overlaps
    \/ call_aabb_collision

-----------------------------------------------------------------------------
(* The specifications: one game runs, the others stay as set up *)

\* the games that do not run
SnakeIdle == SnakeSetup /\ snake_clock = SteadyDeltas /\ snake_time = 50
FlappyIdle == FlappySetup /\ flappy_time = 1
PongIdle == PongSetup /\ pong_time = 1

SnakeInit == SnakeStart /\ FlappyIdle /\ PongIdle /\ BoxSetup

SnakeSpec == SnakeInit /\ [][SnakeNext]_vars

\* the trail game from the upward run, under the quick clock
SnakeRunInit == SnakeUpwardRun /\ FlappyIdle /\ PongIdle /\ BoxSetup

SnakeRunSpec == SnakeRunInit /\ [][SnakeNext]_vars

\* the trail game under the steady clock, the input observed
SnakeInputInit == SnakeInit /\ snake_clock = SteadyDeltas

SnakeInputSpec == SnakeInputInit /\ [][SnakeInputNext]_vars

FlappyInit == (FlappyStart \/ FlappyMidGame) /\ SnakeIdle /\ PongIdle /\ BoxSetup

FlappySpec == FlappyInit /\ [][FlappyNext]_vars

\* the flight game from the late-game state, the runner calling the
\* schedule frame after frame
FlappyLateInit == FlappyLateGame /\ SnakeIdle /\ PongIdle /\ BoxSetup

\* every system of the schedule that can run in the frame does run, and
\* the frame then ends
FlappyFairness ==
    /\ WF_vars(update_bird_system)
    /\ WF_vars(input_system)
    /\ WF_vars(spawn_pipes_system)
    /\ WF_vars(move_pipes_system)
    /\ WF_vars(despawn_pipes_system)
    /\ WF_vars(bird_collision_system)
    /\ WF_vars(flappy_end_of_frame)

FlappyLateSpec == FlappyLateInit /\ [][FlappyNext]_vars /\ FlappyFairness

PongInit == PongStart /\ SnakeIdle /\ FlappyIdle /\ BoxSetup

PongSpec == PongInit /\ [][PongNext]_vars

\* the two box tests, each called once on every pair of boxes
BoxInit == BoxStart /\ SnakeIdle /\ FlappyIdle /\ PongIdle

BoxSpec == BoxInit /\ [][BoxNext]_vars

-----------------------------------------------------------------------------
(* Steps and observations the properties of the trail game speak about *)

SnakeRuns(system) == system \notin snake_ran /\ system \in snake_ran'

AxisDirections == {VecX, VecNeg(VecX), VecY, VecNeg(VecY)}

\* where a segment of the chain is: its translation, or the translation its
\* queued spawn command gives it
QueuedAt(commands, e) ==
    LET i == CHOOSE j \in 1..Len(commands) :
                 commands[j].op = "spawn_segment" /\ commands[j].entity = e
    IN  commands[i].translation

SegmentAt(seg, commands, e) == IF e \in DOMAIN seg THEN seg[e] ELSE QueuedAt(commands, e)

HeadAt == segment[Snake[1]]

\* C1: one tick of snake_movement_system moves the head by
\* direction * SNAKE_SPEED * dt and puts every other segment of the chain
\* where its predecessor was before the tick.
C1_SnapshotShift ==
    [][SnakeRuns("snake_movement_system") =>
        /\ SnakeHz * (segment'[Snake[1]][1] - segment[Snake[1]][1])
              = Direction[1] * SNAKE_SPEED * snake_time
        /\ SnakeHz * (segment'[Snake[1]][2] - segment[Snake[1]][2])
              = Direction[2] * SNAKE_SPEED * snake_time
        /\ \A i \in 2..Len(Snake) :
              SegmentAt(segment', snake_commands', Snake[i])
                 = SegmentAt(segment, snake_commands, Snake[i - 1])]_vars

\* the scenario of C1: [(0,0),(-10,0),(-20,0)], direction (1,0), dt 0.05
C1_Witness ==
    /\ snake_frame = 0
    /\ snake_time = 10
    /\ Direction = VecX
    /\ "snake_movement_system" \in snake_ran
    /\ segment[Snake[1]] = <<10, 0>>
    /\ segment[Snake[2]] = <<0, 0>>
    /\ segment[Snake[3]] = <<-10, 0>>

\* some non-head segment the query finds is closer to the head than radius
HeadWithin(radiusSq) ==
    \E i \in 2..Len(Snake) :
        /\ Snake[i] \in DOMAIN segment
        /\ DistanceSq(HeadAt, segment[Snake[i]]) < radiusSq

\* C2 as stated: with a chain of 4 or more, a segment closer to the head
\* than 5 + 5 = 10 raises game-over in that frame; a chain shorter than 4
\* never raises it.
C2_Original ==
    [][SnakeRuns("self_collision_system") =>
        /\ (Len(Snake) >= 4 /\ HeadWithin(10 * 10)) => snake_exit'
        /\ Len(Snake) < 4 => ~snake_exit']_vars

\* C2 amended: the radius of the check is SNAKE_SIZE.x / 2 = 5.
C2_SelfCollision ==
    [][SnakeRuns("self_collision_system") =>
        /\ (Len(Snake) >= 4 /\ HeadWithin(5 * 5)) => snake_exit'
        /\ Len(Snake) < 4 => ~snake_exit']_vars

C2_Witness ==
    /\ "self_collision_system" \in snake_ran
    /\ Len(Snake) >= 4
    /\ HeadWithin(5 * 5)
    /\ snake_exit

\* C4: the head is never beyond the top or bottom of the play field at the
\* start of a frame of a game that is still running.
C4_Original ==
    (snake_running /\ snake_ran = {}) =>
        /\ 2 * HeadAt[2] <= WINDOW_HEIGHT
        /\ 2 * HeadAt[2] >= -WINDOW_HEIGHT

\* the key that asks for a direction
KeyFor(dir) ==
    IF dir = VecY THEN "ArrowUp"
    ELSE IF dir = VecNeg(VecY) THEN "ArrowDown"
    ELSE IF dir = VecNeg(VecX) THEN "ArrowLeft"
    ELSE "ArrowRight"

\* C6: snake_input_system never turns the direction into its own negation,
\* leaves it alone when the held keys ask only for the reverse (or for the
\* reverse and the current direction), and keeps it an axis unit vector.
C6_NoReverse ==
    [][SnakeRuns("snake_input_system") =>
        /\ Direction' # VecNeg(Direction)
        /\ Direction' \in AxisDirections
        /\ (/\ KeyFor(VecNeg(Direction)) \in snake_keys'
            /\ snake_keys' \subseteq {KeyFor(VecNeg(Direction)), KeyFor(Direction)})
              => Direction' = Direction]_vars

\* the reverse key alone was held and the direction is not the start's
C6_Witness ==
    /\ "snake_input_system" \in snake_ran
    /\ Direction = VecY
    /\ snake_keys = {"ArrowDown"}

\* C7: food_collision_system, for a food closer to the head than 10, queues
\* the food's despawn and appends one segment whose position is the one the
\* previous tail holds; otherwise it leaves chain and commands alone.  The
\* end of the frame removes the food and places the segment.
C7_Growth ==
    [][/\ SnakeRuns("food_collision_system") =>
            LET eaten == {f \in DOMAIN food : DistanceSq(HeadAt, food[f]) < 10 * 10}
                tail == Snake[Len(Snake)]
            IN  IF eaten = {}
                THEN Snake' = Snake /\ snake_commands' = snake_commands
                ELSE /\ \A f \in eaten :
                           \E j \in 1..Len(snake_commands') :
                               /\ snake_commands'[j].op = "despawn"
                               /\ snake_commands'[j].entity = f
                     /\ Len(Snake') = Len(Snake) + 1
                     /\ SubSeq(Snake', 1, Len(Snake)) = Snake
                     /\ Snake'[Len(Snake')] \notin DOMAIN segment
                     /\ QueuedAt(snake_commands', Snake'[Len(Snake')]) = segment[tail]
       /\ (snake_ran = SnakeSystems /\ snake_ran' = {}) =>
            \A j \in 1..Len(snake_commands) :
                /\ snake_commands[j].op = "despawn"
                      => snake_commands[j].entity \notin DOMAIN food'
                /\ snake_commands[j].op = "spawn_segment"
                      => /\ snake_commands[j].entity \in DOMAIN segment'
                         /\ segment'[snake_commands[j].entity]
                               = snake_commands[j].translation]_vars

\* a food was eaten in this frame and the chain has grown
C7_Witness ==
    /\ "food_collision_system" \in snake_ran
    /\ Len(Snake) = 4
    /\ Snake[4] \notin DOMAIN segment
    /\ \E j \in 1..Len(snake_commands) : snake_commands[j].op = "despawn"

\* C8: the chain never shrinks, its ids keep their index, and it changes
\* only by one append at the tail.
C8_ChainGrowsAtTail ==
    [][/\ Len(Snake') >= Len(Snake)
       /\ Len(Snake') <= Len(Snake) + 1
       /\ SubSeq(Snake', 1, Len(Snake)) = Snake]_vars

C8_Witness ==
    /\ Len(Snake) = 4
    /\ SubSeq(Snake, 1, 3) = <<2, 3, 4>>
    /\ Snake[4] \in DOMAIN segment

-----------------------------------------------------------------------------
(* Steps and observations the properties of the flight game speak about *)

FlappyRuns(system) == system \notin flappy_ran /\ system \in flappy_ran'

\* the bird's bottom edge is at or below -256, or its top edge at or above
\* 256 (coordinates in grid units, FlappyGrid units to the pixel)
BirdOutside ==
    \/ bird_translation[2] - FlappyGrid * 16 <= -(FlappyGrid * 256)
    \/ bird_translation[2] + FlappyGrid * 16 >= FlappyGrid * 256

\* the bird's 24 x 32 box and the 52 x 320 box of a pipe overlap strictly:
\* the centres are closer than (24 + 52) / 2 on x and (32 + 320) / 2 on y
BirdOverlaps(e) ==
    /\ 2 * Abs(bird_translation[1] - pipes[e][1]) < FlappyGrid * (24 + 52)
    /\ 2 * Abs(bird_translation[2] - pipes[e][2]) < FlappyGrid * (32 + 320)

\* C3: a frame in which bird_collision_system finds the bird at or beyond
\* the top or bottom of the play field raises game-over, whatever the
\* number of live pipes.
C3_Original ==
    [][(FlappyRuns("bird_collision_system") /\ BirdOutside) => flappy_exit']_vars

\* C5: bird_collision_system raises game-over when the bird's box overlaps
\* the box of a live pipe, and, with the bird strictly inside the vertical
\* bounds, only then; the boxes at (0,0) and (10,0) overlap.
C5_PipeOverlap ==
    [][FlappyRuns("bird_collision_system") =>
        /\ (\E e \in DOMAIN pipes : BirdOverlaps(e)) => flappy_exit'
        /\ (flappy_exit' /\ ~BirdOutside) => \E e \in DOMAIN pipes : BirdOverlaps(e)
        /\ Overlaps(FromCenterSize(PxVec(<<0, 0>>), <<24, 32>>),
                    FromCenterSize(PxVec(<<10, 0>>), <<52, 320>>))]_vars

\* the bird, inside the bounds, has hit a pipe
C5_Witness ==
    /\ "bird_collision_system" \in flappy_ran
    /\ flappy_exit
    /\ ~BirdOutside
    /\ \E e \in DOMAIN pipes : BirdOverlaps(e)

\* the bird has passed a frame in the column of a pipe pair without a hit
C5_WitnessGap ==
    /\ "bird_collision_system" \in flappy_ran
    /\ ~flappy_exit
    /\ \E e \in DOMAIN pipes : 2 * Abs(bird_translation[1] - pipes[e][1]) < FlappyGrid * (24 + 52)

\* the timer has fired in this step: one pair of pipes is queued
PairQueued ==
    /\ flappy_entities' = flappy_entities + 2
    /\ Len(flappy_commands') = Len(flappy_commands) + 2
    /\ \A j \in Len(flappy_commands) + 1..Len(flappy_commands') :
          flappy_commands'[j].op = "spawn_pipe"

NothingQueued ==
    /\ flappy_entities' = flappy_entities
    /\ flappy_commands' = flappy_commands

\* C9: in a game run from its start with a delta of 0.5 s in every frame,
\* the timer of 2.0 s fires in the ticks 4, 8, 12, ... and in no other.
C9_EveryFourthTick ==
    [][(/\ FlappyRuns("spawn_pipes_system")
        /\ ~FromMidGame
        /\ 2 * flappy_time = FlappyHz) =>
          IF (flappy_frame + 1) % 4 = 0 THEN PairQueued ELSE NothingQueued]_vars

\* the third fire, in tick 12
C9_Witness ==
    /\ 2 * flappy_time = FlappyHz
    /\ flappy_frame = 11
    /\ "spawn_pipes_system" \in flappy_ran
    /\ flappy_entities = 3 + 6

\* the tick of this step spans two or more intervals of 2.0 s
SpansTwoIntervals == pipe_timer + flappy_time >= 2 * (2 * FlappyHz)

\* C10 as stated: a tick that spans two or more intervals fires once and
\* leaves the timer's elapsed time at 0.
C10_Original ==
    [][(FlappyRuns("spawn_pipes_system") /\ SpansTwoIntervals) =>
          /\ PairQueued
          /\ pipe_timer' = 0]_vars

\* C10 amended: such a tick fires once and leaves the elapsed time at the
\* remainder of the division by the interval.
C10_NoCatchUp ==
    [][(FlappyRuns("spawn_pipes_system") /\ SpansTwoIntervals) =>
          /\ PairQueued
          /\ pipe_timer' >= 0
          /\ pipe_timer' < 2 * FlappyHz
          /\ \E k \in 2..(pipe_timer + flappy_time) :
                pipe_timer + flappy_time = k * (2 * FlappyHz) + pipe_timer']_vars

\* a tick of 4.5 s has fired once and left 0.5 s
C10_Witness ==
    /\ flappy_time = 72
    /\ flappy_frame = 0
    /\ "spawn_pipes_system" \in flappy_ran
    /\ flappy_entities = 3 + 2
    /\ pipe_timer = 8

\* the two commands the step has appended to the queue
QueuedPair == SubSeq(flappy_commands', Len(flappy_commands) + 1, Len(flappy_commands) + 2)

\* the free space between a lower and an upper pipe of 320 px height, in
\* grid units: bottom edge of the upper one minus top edge of the lower one
FreeGap(lower_y, upper_y) == (upper_y - FlappyGrid * 160) - (lower_y + FlappyGrid * 160)

\* what PipePair gives for every whole gapCenter of [-100, 100), whatever the
\* entity ids (3 and 4 here): x = 370, y = gapCenter -+ 210, a free gap of
\* 100; for gapCenter 30, y = -180 and 240
PairGeometry ==
    /\ \A gapCenter \in -100..99 :
          LET pair == PipePair(3, gapCenter)
          IN  /\ Len(pair) = 2
              /\ pair[1].translation
                    = <<FlappyGrid * 370, FlappyGrid * (gapCenter - 210)>>
              /\ pair[2].translation
                    = <<FlappyGrid * 370, FlappyGrid * (gapCenter + 210)>>
              /\ FreeGap(pair[1].translation[2], pair[2].translation[2])
                    = FlappyGrid * 100
    /\ PipePair(3, 30)[1].translation[2] = FlappyGrid * (-180)
    /\ PipePair(3, 30)[2].translation[2] = FlappyGrid * 240

\* C11: a tick of spawn_pipes_system that reaches the 2.0 s of the timer
\* queues exactly two pipes, any other tick none.  Both pipes are at
\* x = 144 + 26 + 200 = 370 with velocity (-3, 0); the lower one is at
\* y = gapCenter - 210 and the upper one at gapCenter + 210 for one gapCenter
\* of [-100, 100), so the free gap between them is exactly 100 high.  The
\* end of the frame makes both live with that translation and velocity.
\* At a fire, PipePair gives these values for every whole gapCenter of
\* [-100, 100), and -180 and 240 for gapCenter 30.
C11_PipePair ==
    [][/\ FlappyRuns("spawn_pipes_system") =>
            IF pipe_timer + flappy_time >= 2 * FlappyHz
            THEN /\ PairQueued
                 /\ LET lower == QueuedPair[1]
                        upper == QueuedPair[2]
                    IN  /\ lower.entity # upper.entity
                        /\ {lower.entity, upper.entity} \cap DOMAIN pipes = {}
                        /\ lower.translation[1] = FlappyGrid * 370
                        /\ upper.translation[1] = FlappyGrid * 370
                        /\ lower.velocity = <<FlappyGrid * (-3), 0>>
                        /\ upper.velocity = <<FlappyGrid * (-3), 0>>
                        /\ \E gapCenter \in -100..99 :
                              /\ lower.translation[2] = FlappyGrid * (gapCenter - 210)
                              /\ upper.translation[2] = FlappyGrid * (gapCenter + 210)
                        /\ FreeGap(lower.translation[2], upper.translation[2])
                              = FlappyGrid * 100
                 /\ PairGeometry
            ELSE NothingQueued
       /\ (flappy_ran = FlappySystems /\ flappy_ran' = {}) =>
            \A j \in 1..Len(flappy_commands) :
                flappy_commands[j].op = "spawn_pipe" =>
                    /\ flappy_commands[j].entity \in DOMAIN pipes'
                    /\ pipes'[flappy_commands[j].entity] = flappy_commands[j].translation
                    /\ pipe_velocity'[flappy_commands[j].entity]
                          = flappy_commands[j].velocity]_vars

\* a frame begins with the pair of gapCenter 30 just spawned: two live pipes
\* at (370, -180) and (370, 240), each with velocity (-3, 0)
C11_Witness ==
    /\ flappy_ran = {}
    /\ flappy_running
    /\ \E e \in DOMAIN pipes :
          /\ e + 1 \in DOMAIN pipes
          /\ pipes[e] = <<FlappyGrid * 370, FlappyGrid * (-180)>>
          /\ pipes[e + 1] = <<FlappyGrid * 370, FlappyGrid * 240>>
          /\ pipe_velocity[e] = <<FlappyGrid * (-3), 0>>
          /\ pipe_velocity[e + 1] = <<FlappyGrid * (-3), 0>>

\* C12 (flight game): in every frame, whatever order the schedule lets the
\* systems run in, bird_collision_system runs after update_bird_system and
\* move_pipes_system have moved bird and pipes in that frame, input_system
\* runs before update_bird_system, and despawn_pipes_system runs after
\* bird_collision_system.
C12_Original ==
    [][/\ FlappyRuns("bird_collision_system") =>
            {"update_bird_system", "move_pipes_system"} \subseteq flappy_ran
       /\ FlappyRuns("update_bird_system") => "input_system" \in flappy_ran
       /\ FlappyRuns("despawn_pipes_system") =>
            "bird_collision_system" \in flappy_ran]_vars

\* the entities the commands of a queue despawn
Despawned(commands) ==
    {commands[j].entity : j \in {i \in 1..Len(commands) : commands[i].op = "despawn"}}

\* the pipes of the late-game state that come within one frame of the edge
\* in the frames explored: its first pair
LatePipes == {3, 4}

\* C13: despawn_pipes_system queues the removal of exactly the live pipes
\* it finds at x < -144 - 26 = -170 (a pipe at -170 or to the right of it
\* stays), the end of that same frame removes exactly the pipes queued, no
\* other step removes a pipe, and move_pipes_system moves every live pipe
\* by 3 to the left in every frame; a pipe that has come within one frame
\* of the edge is eventually removed unless the game has ended.
C13_Removal ==
    /\ [][/\ FlappyRuns("despawn_pipes_system") =>
               /\ Len(flappy_commands') >= Len(flappy_commands)
               /\ SubSeq(flappy_commands', 1, Len(flappy_commands)) = flappy_commands
               /\ \A j \in Len(flappy_commands) + 1..Len(flappy_commands') :
                      flappy_commands'[j].op = "despawn"
               /\ Despawned(SubSeq(flappy_commands', Len(flappy_commands) + 1,
                                   Len(flappy_commands')))
                     = {e \in DOMAIN pipes : pipes[e][1] < FlappyGrid * (-170)}
          /\ (flappy_ran = FlappySystems /\ flappy_ran' = {}) =>
               DOMAIN pipes \ DOMAIN pipes' = Despawned(flappy_commands)
          /\ \A e \in DOMAIN pipes \ DOMAIN pipes' : pipes[e][1] < FlappyGrid * (-170)
          /\ FlappyRuns("move_pipes_system") =>
               \A e \in DOMAIN pipes :
                   pipes'[e] = <<pipes[e][1] - FlappyGrid * 3, pipes[e][2]>>]_vars
    /\ \A e \in LatePipes :
          (e \in DOMAIN pipes /\ pipes[e][1] <= FlappyGrid * (-167))
             ~> (e \notin DOMAIN pipes \/ ~flappy_running)

\* the first pair has been removed, the game runs on with the other pairs
C13_Witness ==
    /\ flappy_running
    /\ flappy_ran = {}
    /\ {3, 4} \cap DOMAIN pipes = {}
    /\ 5..14 \subseteq DOMAIN pipes

-----------------------------------------------------------------------------
(* Steps and observations the properties of the ball game speak about *)

PongRuns(system) == system \notin pong_ran /\ system \in pong_ran'

\* C14: wall_collision_system leaves the ball where it is; it negates
\* velocity.x exactly when the centre is beyond the left or right limit
\* (|x| > 400 - 5) and velocity.y exactly when it is beyond the top or
\* bottom limit (|y| > 300 - 5), each component on its own.  A ball with
\* velocity (300, 300) past the right edge leaves with (-300, 300).
C14_WallReflection ==
    [][PongRuns("wall_collision_system") =>
        /\ ball_translation' = ball_translation
        /\ ball_velocity'[1] = IF Abs(ball_translation[1]) > 400 - 5
                               THEN -ball_velocity[1] ELSE ball_velocity[1]
        /\ ball_velocity'[2] = IF Abs(ball_translation[2]) > 300 - 5
                               THEN -ball_velocity[2] ELSE ball_velocity[2]
        /\ WallReflect(<<396, 0>>, <<300, 300>>) = <<-300, 300>>]_vars

\* the ball, past the right edge only, has been turned back by the wall
C14_Witness ==
    /\ {"ball_movement_system", "wall_collision_system"} \subseteq pong_ran
    /\ ball_translation[1] > 400 - 5
    /\ Abs(ball_translation[2]) <= 300 - 5
    /\ ball_velocity[1] = -300

\* how far a coordinate is beyond a limit
Excess(coordinate, limit) ==
    IF Abs(coordinate) > limit THEN Abs(coordinate) - limit ELSE 0

BallOutside(translation) ==
    Abs(translation[1]) > 395 \/ Abs(translation[2]) > 295

\* C15: after the movement of every frame the ball's centre is beyond the
\* limits 395 and 295 by at most that frame's travel, 300 * dt, on each
\* axis, and a ball that a frame found outside a limit (where the frame
\* before left it) is inside both limits after that frame's movement.
C15_Original ==
    [][PongRuns("ball_movement_system") =>
        /\ PongHz * Excess(ball_translation'[1], 395) <= 300 * pong_time
        /\ PongHz * Excess(ball_translation'[2], 295) <= 300 * pong_time
        /\ BallOutside(ball_translation) => ~BallOutside(ball_translation')]_vars

-----------------------------------------------------------------------------
(* Observations the property of the two box tests speaks about *)

\* on an axis, the centres are apart by the sum of the half extents (the
\* edges touch) or by more
TouchingOn(axis) ==
    2 * Abs(box_a.pos[axis] - box_b.pos[axis]) = box_a.size[axis] + box_b.size[axis]

ApartOn(axis) ==
    2 * Abs(box_a.pos[axis] - box_b.pos[axis]) >= box_a.size[axis] + box_b.size[axis]

\* C16: for every pair of boxes with centres and positive sizes of a bounded
\* set, Rect::overlaps and aabb_collision each return the same for (a, b)
\* and (b, a), return true for two identical boxes, return false for boxes
\* whose edges only touch or that are further apart on some axis, and the
\* two return the same on the same pair.
C16_BoxTests ==
    /\ overlaps_result.called =>
          /\ overlaps_result.ab = overlaps_result.ba
          /\ box_a = box_b => overlaps_result.ab
          /\ (ApartOn(1) \/ ApartOn(2)) => ~overlaps_result.ab
    /\ collision_result.called =>
          /\ collision_result.ab = collision_result.ba
          /\ box_a = box_b => collision_result.ab
          /\ (ApartOn(1) \/ ApartOn(2)) => ~collision_result.ab
    /\ (overlaps_result.called /\ collision_result.called) =>
          overlaps_result.ab = collision_result.ab

\* both tests have been called on two boxes of different size whose edges
\* touch on x and that overlap on y, and both have returned false
C16_Witness ==
    /\ overlaps_result.called
    /\ collision_result.called
    /\ box_a.size # box_b.size
    /\ TouchingOn(1)
    /\ ~ApartOn(2)
    /\ ~overlaps_result.ab
    /\ ~collision_result.ab

-----------------------------------------------------------------------------
(* Flight game: the integrator and the jump *)

\* frames in which update_bird_system has run, the running one included
Updates == flappy_frame + 1

\* C17: every step of update_bird_system adds GRAVITY * dt to the velocity
\* and then adds the new velocity, as it is, to the position; from the start
\* of the game and as long as Space was never pressed, after n frames of a
\* constant dt velocity.y is n * g * dt and y is the sum of k * g * dt over
\* k = 1..n, that is n * (n + 1) / 2 * g * dt.
C17_Integrator ==
    [][FlappyRuns("update_bird_system") =>
        /\ FlappyHz * (bird_velocity'[2] - bird_velocity[2]) =
              Px(GRAVITY[2]) * flappy_time
        /\ bird_velocity'[1] = bird_velocity[1]
        /\ bird_translation' = VecAdd(bird_translation, bird_velocity')
        /\ (~FromMidGame /\ flappy_jumps = 0) =>
              /\ FlappyHz * bird_velocity'[2] =
                    Updates * Px(GRAVITY[2]) * flappy_time
              /\ 2 * FlappyHz * bird_translation'[2] =
                    Updates * (Updates + 1) * Px(GRAVITY[2]) * flappy_time]_vars

\* ten frames of 62.5 ms without a jump: the velocity is 10 * (-8) / 16 =
\* -5 px and the bird is at y = (1 + ... + 10) * (-0.5) = -27.5 px
C17_Witness ==
    /\ "update_bird_system" \in flappy_ran
    /\ flappy_frame = 9
    /\ flappy_time = 1
    /\ flappy_jumps = 0
    /\ bird_velocity = <<0, Px(-5)>>
    /\ bird_translation = <<0, -55>>

\* C18: every step of input_system that handles a newly pressed Space
\* leaves velocity.y at JUMP_FORCE.y = 5 whatever it was before, and
\* velocity.x as it was; in every state velocity.y is at most 5.
C18_JumpOverrides ==
    [][/\ (FlappyRuns("input_system") /\ flappy_jumps' = flappy_jumps + 1) =>
            bird_velocity' = <<bird_velocity[1], Px(5)>>
       /\ bird_velocity[2] <= Px(5)
       /\ bird_velocity'[2] <= Px(5)]_vars

\* a jump in the fifth frame of 62.5 ms, before the bird is updated: the
\* bird had fallen for four frames, to y = -5 px with velocity.y = -2 px,
\* and the velocity is now 5 px
C18_Witness ==
    /\ "input_system" \in flappy_ran
    /\ "update_bird_system" \notin flappy_ran
    /\ flappy_frame = 4
    /\ flappy_time = 1
    /\ flappy_jumps = 1
    /\ bird_translation = <<0, -10>>
    /\ bird_velocity = PxVec(<<0, 5>>)

-----------------------------------------------------------------------------
(* Trail game: a chain in a straight line *)

\* position p is on the line through h along dir, not ahead of h
Behind(p, h, dir) ==
    /\ (p[1] - h[1]) * dir[2] = (p[2] - h[2]) * dir[1]
    /\ (p[1] - h[1]) * dir[1] + (p[2] - h[2]) * dir[2] <= 0

\* the chain is in a straight line: every segment the query finds is behind
\* the head on the line of the direction of travel
StraightChain ==
    /\ Snake[1] \in DOMAIN segment
    /\ \A i \in 2..Len(Snake) :
          Snake[i] \in DOMAIN segment =>
              Behind(segment[Snake[i]], segment[Snake[1]], Direction)

-----------------------------------------------------------------------------
(* Trail game: the pickup *)

\* the commands a step has appended to the queue
QueuedBy(before, after) == SubSeq(after, Len(before) + 1, Len(after))

\* the commands of a sequence with the given op
WithOp(commands, op) == SelectSeq(commands, LAMBDA c : c.op = op)

\* the entities the commands of a sequence name
EntitiesOf(commands) == {commands[i].entity : i \in 1..Len(commands)}

\* the food entities whose distance to the head is below the hit radius
FoodsHit ==
    {e \in DOMAIN food :
        /\ Snake[1] \in DOMAIN segment
        /\ FoodHit(segment[Snake[1]], food[e])}

\* C20: every frame starts with exactly one food.  A step of
\* food_collision_system queues, for the foods within the hit radius of the
\* head and for no other, one despawn of that food and one spawn of a new
\* food with x in [-400, 400) and y in [-300, 300); the end of the frame
\* removes exactly the foods despawned and adds exactly the foods spawned,
\* at their positions; no other step changes the foods.
C20_OnePickup ==
    [][/\ snake_ran = {} => Cardinality(DOMAIN food) = 1
       /\ snake_ran' = {} => Cardinality(DOMAIN food') = 1
       /\ SnakeRuns("food_collision_system") =>
            LET queued == QueuedBy(snake_commands, snake_commands')
                spawned == WithOp(queued, "spawn_food")
            IN  /\ EntitiesOf(WithOp(queued, "despawn")) = FoodsHit
                /\ Len(WithOp(queued, "despawn")) = Cardinality(FoodsHit)
                /\ Len(spawned) = Cardinality(FoodsHit)
                /\ Cardinality(EntitiesOf(spawned)) = Len(spawned)
                /\ \A i \in 1..Len(spawned) :
                      /\ spawned[i].entity \notin DOMAIN food
                      /\ 2 * spawned[i].translation[1] >= -WINDOW_WIDTH
                      /\ 2 * spawned[i].translation[1] < WINDOW_WIDTH
                      /\ 2 * spawned[i].translation[2] >= -WINDOW_HEIGHT
                      /\ 2 * spawned[i].translation[2] < WINDOW_HEIGHT
       /\ IF snake_ran = SnakeSystems /\ snake_ran' = {}
          THEN LET spawned == WithOp(snake_commands, "spawn_food")
                   despawned == EntitiesOf(WithOp(snake_commands, "despawn"))
               IN  /\ DOMAIN food' = (DOMAIN food \ despawned) \cup EntitiesOf(spawned)
                   /\ \A e \in DOMAIN food \ despawned : food'[e] = food[e]
                   /\ \A i \in 1..Len(spawned) :
                         food'[spawned[i].entity] = spawned[i].translation
          ELSE food' = food]_vars

\* a frame starts with the food of setup gone and, in its place, the one
\* food spawned when the head reached it, at the position drawn; the chain
\* has grown to four
C20_Witness ==
    /\ snake_ran = {}
    /\ snake_running
    /\ Len(Snake) = 4
    /\ 1 \notin DOMAIN food
    /\ \E e \in DOMAIN food : e > 4 /\ food = [f \in {e} |-> <<50, 110>>]

====
